---- MODULE Spec2Model ----
(***************************************************************************)
(* A model of remove_unused_imports.py (class RemoveUnusedImports).        *)
(*                                                                         *)
(* Text is modelled character by character: a Python str is a sequence of  *)
(* one-character strings, a file's line buffer (file_lines) is a sequence  *)
(* of such strings, each ending in "\n".  Python list indices are 0-based, *)
(* TLA+ sequences 1-based: the model keeps the program's 0-based values in *)
(* its variables and adds 1 where it subscripts.                           *)
(***************************************************************************)
EXTENDS Integers, Sequences, FiniteSets, TLC

(***************************************************************************)
(* Bounds of the model.                                                    *)
(***************************************************************************)
\* statements in the file of the editing runs
MaxStmts == 2
\* symbols in an argument list of the function calls
MaxSyms == 2

(***************************************************************************)
(* Python str primitives.                                                  *)
(***************************************************************************)
\* the characters str.strip() and the regex class \s remove
WS == {" ", "\n", "\t"}

\* the characters of the model in code point order (Python compares str by
\* code point)
CharOrder ==
    << "\t", "\n", " ", "#", "'", "(", ")", ",", ".", "0", "1", "2", "3", "4",
       "5", "6", "7", "8", "9", ":", ";", "=", "\\", "_", "a", "b", "c", "d",
       "e", "f", "g", "h", "i", "j", "k", "l", "m", "n", "o", "p", "q", "r",
       "s", "t", "u", "v", "w", "x", "y", "z" >>

Ord(c) == CHOOSE i \in 1..Len(CharOrder) : CharOrder[i] = c

\* a < b for str
RECURSIVE StrLess(_, _)
StrLess(a, b) ==
    IF b = << >> THEN FALSE
    ELSE IF a = << >> THEN TRUE
    ELSE IF Head(a) = Head(b) THEN StrLess(Tail(a), Tail(b))
    ELSE Ord(Head(a)) < Ord(Head(b))

\* s[i:] of Python, i 0-based
From(s, i) == SubSeq(s, i + 1, Len(s))

\* s.startswith(p) at 1-based position i
OccursAt(s, p, i) ==
    /\ i >= 1
    /\ i + Len(p) - 1 <= Len(s)
    /\ SubSeq(s, i, i + Len(p) - 1) = p

StartsWith(s, p) == OccursAt(s, p, 1)

\* s.endswith(p)
EndsWith(s, p) == OccursAt(s, p, Len(s) - Len(p) + 1)

\* c in s
Contains(s, c) == \E i \in 1..Len(s) : s[i] = c

\* the first position >= i where p occurs in s, 0 when there is none
RECURSIVE Find(_, _, _)
Find(s, p, i) ==
    IF i + Len(p) - 1 > Len(s) THEN 0
    ELSE IF OccursAt(s, p, i) THEN i
    ELSE Find(s, p, i + 1)

\* s.split(sep)
RECURSIVE Split(_, _)
Split(s, sep) ==
    LET i == Find(s, sep, 1)
    IN  IF i = 0 THEN << s >>
        ELSE << SubSeq(s, 1, i - 1) >> \o Split(From(s, i + Len(sep) - 1), sep)

RECURSIVE LStrip(_, _)
LStrip(s, chars) ==
    IF s # << >> /\ Head(s) \in chars THEN LStrip(Tail(s), chars) ELSE s

RECURSIVE RStrip(_, _)
RStrip(s, chars) ==
    IF s # << >> /\ s[Len(s)] \in chars
    THEN RStrip(SubSeq(s, 1, Len(s) - 1), chars)
    ELSE s

\* s.strip(chars)
StripChars(s, chars) == RStrip(LStrip(s, chars), chars)

\* s.strip()
Strip(s) == StripChars(s, WS)

\* sep.join(parts)
RECURSIVE Join(_, _)
Join(parts, sep) ==
    IF parts = << >> THEN << >>
    ELSE IF Len(parts) = 1 THEN parts[1]
    ELSE parts[1] \o sep \o Join(Tail(parts), sep)

\* ''.join(lines): what file.writelines(lines) writes
WriteLines(lines) == Join(lines, << >>)

\* file.readlines(): the text cut after each "\n", terminators kept
RECURSIVE ReadLines(_)
ReadLines(text) ==
    IF text = << >> THEN << >>
    ELSE LET i == Find(text, << "\n" >>, 1)
         IN  IF i = 0 THEN << text >>
             ELSE << SubSeq(text, 1, i) >> \o ReadLines(From(text, i))

\* the elements of a sequence
Range(s) == { s[i] : i \in 1..Len(s) }

\* sorted(list(S)) for a set S of str
RECURSIVE Sorted(_)
Sorted(S) ==
    IF S = {} THEN << >>
    ELSE LET m == CHOOSE x \in S : \A y \in S \ {x} : StrLess(x, y)
         IN  << m >> \o Sorted(S \ {m})

\* int(s) for a str of decimal digits, -1 for what int() rejects
Digit == [ c \in {"0", "1", "2", "3", "4", "5", "6", "7", "8", "9"} |->
             Ord(c) - Ord("0") ]

RECURSIVE IntOfDigits(_, _)
IntOfDigits(s, acc) ==
    IF s = << >> THEN acc
    ELSE IntOfDigits(Tail(s), 10 * acc + Digit[Head(s)])

PyInt(s) ==
    LET t == Strip(s)
    IN  IF t # << >> /\ \A i \in 1..Len(t) : t[i] \in DOMAIN Digit
        THEN IntOfDigits(t, 0)
        ELSE -1

\* str(n) for n >= 0
RECURSIVE PyStr(_)
PyStr(n) ==
    LET d == << CharOrder[Ord("0") + (n % 10)] >>
    IN  IF n < 10 THEN d ELSE PyStr(n \div 10) \o d

(***************************************************************************)
(* Literals of the program.                                                *)
(***************************************************************************)
kw_import == << "i", "m", "p", "o", "r", "t" >>
kw_import_sp == kw_import \o << " " >>
kw_from_sp == << "f", "r", "o", "m", " " >>
NL == << "\n" >>
ESCAPE_CHARACTER == "\\"
INIT_PY == << "_", "_", "i", "n", "i", "t", "_", "_", ".", "p", "y" >>
\* ' imported but unused', the tail UNUSED_IMPORT_RE asks for
IMPORTED_BUT_UNUSED ==
    << " ", "i", "m", "p", "o", "r", "t", "e", "d", " ", "b", "u", "t", " ",
       "u", "n", "u", "s", "e", "d" >>

\* Python's None among str values: a sequence no str equals
None == << "None" >>

\* '%s' % (name,): the text of a name, 'None' for None
Format(name) == IF name = None THEN << "N", "o", "n", "e" >> ELSE name

(***************************************************************************)
(* The regular expressions of the class.                                   *)
(***************************************************************************)
\* re.match(BASE_IMPORT_RE, line).groups(''), BASE_IMPORT_RE being
\* (\s*)(from .*)?import .* : group 1 is the leading whitespace (nothing
\* after it can start with whitespace, so it is all of it); group 2 is
\* greedy, from 'from ' to the last 'import ' that '.' (no newline) reaches,
\* or '' when 'import ' follows the whitespace directly.
BaseImportMatch(line) ==
    LET rest == LStrip(line, WS)
        padding == SubSeq(line, 1, Len(line) - Len(rest))
        nl == Find(rest, NL, 1)
        dotEnd == IF nl = 0 THEN Len(rest) ELSE nl - 1
        ends == { i \in 1..dotEnd :
                    /\ i >= Len(kw_from_sp) + 1
                    /\ OccursAt(rest, kw_import_sp, i)
                    /\ i + Len(kw_import_sp) - 1 <= dotEnd }
        last == CHOOSE i \in ends : \A j \in ends : j <= i
    IN  IF StartsWith(rest, kw_from_sp) /\ ends # {}
        THEN [matched |-> TRUE, padding |-> padding,
              base_import |-> SubSeq(rest, 1, last - 1)]
        ELSE IF StartsWith(rest, kw_import_sp)
        THEN [matched |-> TRUE, padding |-> padding, base_import |-> << >>]
        ELSE [matched |-> FALSE, padding |-> << >>, base_import |-> << >>]

\* re.match(SINGLE_IMPORT_RE % (name,), line), SINGLE_IMPORT_RE being
\* (from .*|^)import (.*as\s)?%s$ , for a name without regex metacharacters
\* and a line without newline: 'import ' at the start or anywhere after a
\* leading 'from ', then the name at the end, with nothing before it or a
\* text ending in 'as' and one whitespace.
SingleImportMatch(name, line) ==
    \E i \in 1..Len(line) :
        /\ OccursAt(line, kw_import_sp, i)
        /\ i = 1 \/ (StartsWith(line, kw_from_sp) /\ i >= Len(kw_from_sp) + 1)
        /\ LET rest == From(line, i + Len(kw_import_sp) - 1)
               text == Format(name)
               mid == SubSeq(rest, 1, Len(rest) - Len(text))
           IN  /\ EndsWith(rest, text)
               /\ \/ mid = << >>
                  \/ /\ Len(mid) >= 3
                     /\ mid[Len(mid)] \in WS
                     /\ SubSeq(mid, Len(mid) - 2, Len(mid) - 1) = << "a", "s" >>

\* re.match(UNUSED_IMPORT_RE, line.strip()): '.* imported but unused$'
UnusedImportMatch(line) ==
    LET s == Strip(line)
    IN  /\ EndsWith(s, IMPORTED_BUT_UNUSED)
        /\ ~Contains(s, "\n")

\* re.match(UNUSED_MODULE_NAME_RE, error): '(.*)'.* : between the first
\* character, a quote, and the last quote of the line; None for no match
UnusedModuleName(error) ==
    LET quotes == { i \in 2..Len(error) : error[i] = "'" }
        last == CHOOSE i \in quotes : \A j \in quotes : j <= i
    IN  IF error # << >> /\ error[1] = "'" /\ quotes # {} /\ ~Contains(error, "\n")
        THEN SubSeq(error, 2, last - 1)
        ELSE None

(***************************************************************************)
(* The static methods.                                                     *)
(***************************************************************************)
\* re.sub(r'[\\\s]', '', line)
clean_line(line) == SelectSeq(line, LAMBDA c : c \notin (WS \cup {ESCAPE_CHARACTER}))

\* sorted(list(set(imports) - set(unused_imports)))
get_modules_to_keep(imports, unused_imports) ==
    Sorted(Range(imports) \ Range(unused_imports))

\* line.split('import')[1] raises IndexError on a line without 'import'
split_raises(line) == Len(Split(line, kw_import)) < 2

\* line.split('import')[1].strip(), split on ',', each part stripped, the
\* empty parts dropped (<< >> where split_raises)
split_single_line_multi_imports(line) ==
    LET parts == Split(line, kw_import)
    IN  IF Len(parts) < 2 THEN << >>
        ELSE LET imported_modules_string == Strip(parts[2])
                 fragments == Split(imported_modules_string, << "," >>)
                 imported_modules ==
                     [ i \in 1..Len(fragments) |-> Strip(fragments[i]) ]
             IN  SelectSeq(imported_modules, LAMBDA m : m # << >>)

RECURSIVE BuildLines(_, _)
BuildLines(padding, imports) ==
    IF imports = << >> THEN << >>
    ELSE padding \o << " ", " ", " ", " " >> \o imports[1] \o << ",", "\n" >>
         \o BuildLines(padding, Tail(imports))

build_multiline_import_flush_left(padding, base_import, imports) ==
    IF base_import = << >>
    THEN kw_import_sp \o Join(Sorted(Range(imports)), << ",", " " >>) \o NL
    ELSE padding \o base_import \o kw_import_sp \o << "(", "\n" >>
         \o BuildLines(<< >>, Sorted(Range(imports)))
         \o padding \o << ")", "\n" >>

build_multiline_import(padding, base_import, imports) ==
    IF base_import = << >>
    THEN kw_import_sp \o Join(Sorted(Range(imports)), << ",", " " >>) \o NL
    ELSE padding \o base_import \o kw_import_sp \o << "(", "\n" >>
         \o BuildLines(padding, Sorted(Range(imports)))
         \o padding \o << ")", "\n" >>

(***************************************************************************)
(* Python list primitives on the line buffer, indices 0-based.             *)
(***************************************************************************)
\* lst[:i] + lst[j:]
CutOut(lst, i, j) == SubSeq(lst, 1, i) \o SubSeq(lst, j + 1, Len(lst))

\* lst.pop(i)
Pop(lst, i) == CutOut(lst, i, i + 1)

\* lst.insert(i, x), 0 <= i <= len(lst)
Insert(lst, i, x) == SubSeq(lst, 1, i) \o << x >> \o SubSeq(lst, i + 1, Len(lst))

(***************************************************************************)
(* The Import Grouper.  end_index = -1 stands for the IndexError of a scan *)
(* that runs past the end of file_lines.                                   *)
(***************************************************************************)
RECURSIVE ScanMultiline(_, _, _)
ScanMultiline(current_index, group, file_lines) ==
    IF current_index >= Len(file_lines)
    THEN [group |-> group, end_index |-> -1]
    ELSE LET current_line == Strip(file_lines[current_index + 1])
         IN  IF current_line = << ")" >>
             THEN [group |-> group, end_index |-> current_index]
             ELSE ScanMultiline(current_index + 1,
                                Append(group, StripChars(current_line, {","})),
                                file_lines)

group_multiline_imports_count(start_index, file_lines) ==
    LET r == ScanMultiline(start_index + 1, << >>, file_lines)
    IN  [group |-> r.group, end_index |-> start_index + Len(r.group)]

group_multiline_imports(start_index, file_lines) ==
    ScanMultiline(start_index + 1, << >>, file_lines)

RECURSIVE ScanEscaped(_, _, _)
ScanEscaped(current_index, group, file_lines) ==
    IF current_index >= Len(file_lines)
    THEN [group |-> group, end_index |-> -1]
    ELSE LET current_line == Strip(file_lines[current_index + 1])
         IN  IF ~Contains(current_line, ESCAPE_CHARACTER)
             THEN [group |-> Append(group, StripChars(current_line, {","})),
                   end_index |-> current_index]
             ELSE ScanEscaped(current_index + 1,
                              Append(group,
                                     StripChars(clean_line(current_line), {","})),
                              file_lines)

group_escaped_imports(start_index, file_lines) ==
    ScanEscaped(start_index + 1,
                split_single_line_multi_imports(
                    clean_line(file_lines[start_index + 1])),
                file_lines)

(***************************************************************************)
(* The Import Rewriter.  Each handler returns the new line_adjustment and  *)
(* file_lines; raised is TRUE when the handler leaves by an exception.     *)
(***************************************************************************)
Raised(line_adjustment, file_lines) ==
    [line_adjustment |-> line_adjustment, file_lines |-> file_lines,
     raised |-> TRUE]

Returned(line_adjustment, file_lines) ==
    [line_adjustment |-> line_adjustment, file_lines |-> file_lines,
     raised |-> FALSE]

handle_single_line_multiple_imports(unused_imports, index, unused_import_line, line_adjustment, file_lines) ==
    LET escaped == Contains(unused_import_line, ESCAPE_CHARACTER)
        g == group_escaped_imports(index, file_lines)
        imported_modules ==
            IF escaped THEN g.group
            ELSE split_single_line_multi_imports(unused_import_line)
        lines1 ==
            IF escaped THEN CutOut(file_lines, index, g.end_index + 1)
            ELSE Pop(file_lines, index)
        adjustment1 ==
            IF escaped THEN line_adjustment + g.end_index - index
            ELSE line_adjustment
        modules_to_keep == get_modules_to_keep(imported_modules, unused_imports)
        m == BaseImportMatch(unused_import_line)
        new_line ==
            IF Len(modules_to_keep) > 1
            THEN build_multiline_import(m.padding, m.base_import, modules_to_keep)
            ELSE m.padding \o m.base_import \o kw_import_sp
                 \o modules_to_keep[1] \o NL
    IN  IF escaped /\ (split_raises(clean_line(unused_import_line))
                       \/ g.end_index = -1)
        THEN Raised(line_adjustment, file_lines)
        ELSE IF ~escaped /\ split_raises(unused_import_line)
        THEN Raised(line_adjustment, file_lines)
        ELSE IF modules_to_keep = << >>
        THEN Returned(adjustment1 + 1, lines1)
        ELSE IF ~m.matched
        THEN Raised(adjustment1, lines1)
        ELSE Returned(adjustment1, Insert(lines1, index, new_line))

handle_multiline_imports(unused_imports, index, unused_import_line, line_adjustment, file_lines) ==
    LET g == group_multiline_imports(index, file_lines)
        modules_to_keep == get_modules_to_keep(g.group, unused_imports)
        old_length == Len(file_lines)
        lines1 == CutOut(file_lines, index, g.end_index + 1)
        m == BaseImportMatch(unused_import_line)
        lines2 ==
            IF modules_to_keep = << >> THEN lines1
            ELSE IF Len(modules_to_keep) = 1
            THEN Insert(lines1, index,
                        StripChars(unused_import_line, {"(", "\n"})
                        \o modules_to_keep[1] \o NL)
            ELSE Insert(lines1, index,
                        build_multiline_import(m.padding, m.base_import,
                                               modules_to_keep))
    IN  IF g.end_index = -1
        THEN Raised(line_adjustment, file_lines)
        ELSE IF Len(modules_to_keep) > 1 /\ ~m.matched
        THEN Raised(line_adjustment, lines1)
        ELSE Returned(line_adjustment + old_length - Len(lines2), lines2)

handle_single_line_imports_no_count(index, line_adjustment, file_lines) ==
    Returned(line_adjustment, Pop(file_lines, index))

handle_single_line_imports(index, line_adjustment, file_lines) ==
    Returned(line_adjustment + 1, Pop(file_lines, index))

(***************************************************************************)
(* The inputs of the model: the statements a file is made of.  Each entry  *)
(* gives the statement's physical lines and, for the properties, what the  *)
(* statement is: its shape, indentation, 'from <module> ' prefix and the   *)
(* names it imports, in source order.                                      *)
(*   1  import os                       5  from p import b, \              *)
(*   2      from p import a                    a                           *)
(*   3  from p import c, a, b           6  from p import (                 *)
(*   4      import b, a                        b,                          *)
(*   7  from importlib import a, b             a                           *)
(*   8  x = 1                              )                               *)
(*   9  from p import \  (a on the next line)                              *)
(***************************************************************************)
Statements ==
    <<
       [shape |-> "single",
        padding |-> <<  >>,
        base_import |-> <<  >>,
        symbols |-> << << "o", "s" >> >>,
        lines |-> << << "i", "m", "p", "o", "r", "t", " ", "o", "s",
                  "\n" >> >>],
       [shape |-> "single",
        padding |-> << " ", " ", " ", " " >>,
        base_import |-> << "f", "r", "o", "m", " ", "p", " " >>,
        symbols |-> << << "a" >> >>,
        lines |-> << << " ", " ", " ", " ", "f", "r", "o", "m", " ", "p",
                  " ", "i", "m", "p", "o", "r", "t", " ", "a",
                  "\n" >> >>],
       [shape |-> "comma",
        padding |-> <<  >>,
        base_import |-> << "f", "r", "o", "m", " ", "p", " " >>,
        symbols |-> << << "c" >>, << "a" >>, << "b" >> >>,
        lines |-> << << "f", "r", "o", "m", " ", "p", " ", "i", "m", "p",
                  "o", "r", "t", " ", "c", ",", " ", "a", ",", " ", "b",
                  "\n" >> >>],
       [shape |-> "comma",
        padding |-> << " ", " ", " ", " " >>,
        base_import |-> <<  >>,
        symbols |-> << << "b" >>, << "a" >> >>,
        lines |-> << << " ", " ", " ", " ", "i", "m", "p", "o", "r", "t",
                  " ", "b", ",", " ", "a", "\n" >> >>],
       [shape |-> "backslash",
        padding |-> <<  >>,
        base_import |-> << "f", "r", "o", "m", " ", "p", " " >>,
        symbols |-> << << "b" >>, << "a" >> >>,
        lines |-> << << "f", "r", "o", "m", " ", "p", " ", "i", "m", "p",
                  "o", "r", "t", " ", "b", ",", " ", "\\", "\n" >>,
                  << " ", " ", " ", " ", "a", "\n" >> >>],
       [shape |-> "parenthesized",
        padding |-> <<  >>,
        base_import |-> << "f", "r", "o", "m", " ", "p", " " >>,
        symbols |-> << << "b" >>, << "a" >> >>,
        lines |-> << << "f", "r", "o", "m", " ", "p", " ", "i", "m", "p",
                  "o", "r", "t", " ", "(", "\n" >>, << " ", " ", " ",
                  " ", "b", ",", "\n" >>, << " ", " ", " ", " ", "a",
                  "\n" >>, << ")", "\n" >> >>],
       [shape |-> "comma",
        padding |-> <<  >>,
        base_import |-> << "f", "r", "o", "m", " ", "i", "m", "p", "o",
                        "r", "t", "l", "i", "b", " " >>,
        symbols |-> << << "a" >>, << "b" >> >>,
        lines |-> << << "f", "r", "o", "m", " ", "i", "m", "p", "o", "r",
                  "t", "l", "i", "b", " ", "i", "m", "p", "o", "r", "t",
                  " ", "a", ",", " ", "b", "\n" >> >>],
       [shape |-> "other",
        padding |-> <<  >>,
        base_import |-> <<  >>,
        symbols |-> <<  >>,
        lines |-> << << "x", " ", "=", " ", "1", "\n" >> >>],
       [shape |-> "backslash",
        padding |-> <<  >>,
        base_import |-> << "f", "r", "o", "m", " ", "p", " " >>,
        symbols |-> << << "a" >> >>,
        lines |-> << << "f", "r", "o", "m", " ", "p", " ", "i", "m", "p",
                  "o", "r", "t", " ", "\\", "\n" >>, << " ", " ", " ",
                  " ", "a", "\n" >> >>]
    >>

M_PY == << "m", ".", "p", "y" >>
INIT_FILE == << "p", "/", "_", "_", "i", "n", "i", "t", "_", "_", ".", "p", "y" >>
\* the text of __init__.py on the modelled disk
INIT_TEXT == << "i", "m", "p", "o", "r", "t", " ", "o", "s", "\n" >>

\* 'c:' before a path: a report line of four ':'-separated fields
DRIVE == << "c", ":" >>
\* a report line that is no unused-import finding
NOISE_LINE == << "m", ".", "p", "y", ":", "1", ":", " ", "x", "\n" >>

\* <path>:<line>: '<name>' imported but unused
DiagLine(path, line_no, name) ==
    path \o << ":" >> \o PyStr(line_no) \o << ":", " ", "'" >> \o name
    \o << "'" >> \o IMPORTED_BUT_UNUSED \o NL

RECURSIVE ProgLines(_)
ProgLines(pr) ==
    IF pr = << >> THEN << >>
    ELSE Statements[Head(pr)].lines \o ProgLines(Tail(pr))

\* the 1-based line where statement k of the file starts
StartLine(pr, k) == 1 + Len(ProgLines(SubSeq(pr, 1, k - 1)))

\* for each statement of the file, the set of its names reported unused:
\* some of the names of every import statement (a line that is no import
\* stands for all that the report does not name)
RECURSIVE Choices(_)
Choices(pr) ==
    IF pr = << >> THEN { << >> }
    ELSE LET names == Range(Statements[Head(pr)].symbols)
         IN  { << h >> \o t :
                 h \in { U \in SUBSET names : U = {} <=> names = {} },
                 t \in Choices(Tail(pr)) }

RECURSIVE Report(_, _, _)
Report(pr, u, k) ==
    IF k > Len(pr) THEN << >>
    ELSE LET names == SelectSeq(Statements[pr[k]].symbols,
                                LAMBDA n : n \in u[k])
         IN  [ i \in 1..Len(names) |->
                 DiagLine(M_PY, StartLine(pr, k), names[i]) ]
             \o Report(pr, u, k + 1)

Reverse(s) == [ i \in 1..Len(s) |-> s[Len(s) + 1 - i] ]

\* what the diagnostic pass prints: the findings of m.py in ascending or
\* descending order, then a finding in the package's __init__.py, a line of
\* another kind, and a line with a drive letter at position env.malformed
EnvReport(pr, u, env) ==
    LET found == Report(pr, u, 1)
        lines == (IF env.rev THEN Reverse(found) ELSE found)
                 \o (IF env.init_diag
                     THEN << DiagLine(INIT_FILE, 1, << "o", "s" >>) >>
                     ELSE << >>)
                 \o (IF env.noise THEN << NOISE_LINE >> ELSE << >>)
        at == IF env.malformed > Len(lines) THEN Len(lines) ELSE env.malformed
    IN  IF env.malformed < 0 THEN lines
        ELSE Insert(lines, at,
                    DRIVE \o DiagLine(M_PY, 1, << "a" >>))

(***************************************************************************)
(* The state.                                                              *)
(***************************************************************************)
VARIABLES
    commit_changes,         \* self.commit_changes
    diagnostics,            \* the lines the diagnostic pass reports
    disk,                   \* path -> text of the files under self.base
    tmp_exists,             \* the mkstemp() file is on the filesystem
    tmp_text,               \* its text
    pc,                     \* where process() stands
    exception,              \* the exception that ended the run, or "none"
    unused_import_lines,    \* get_unused_imports' result
    parse_i,                \* lines of it parsed by remove_unused_imports
    files_to_clean,         \* the (path, line_num, unused_module) parsed
    pending_files,          \* keys of files_to_clean not yet visited
    file_path,              \* remove_unused_imports_from_file's argument
    file_lines,             \* its line buffer
    line_adjustment,        \* its running line offset
    unused_imports_by_line, \* line number -> names reported there
    pending_lines,          \* keys of unused_imports_by_line not yet visited
    orig,                   \* history: disk when the run started
    prog,                   \* history: the statements m.py was made of
    reported,               \* history: per statement, the names reported
    opened,                 \* history: the paths opened for reading
    written,                \* history: the paths opened for writing
    edit,                   \* history: the last edit of the buffer
    applied,                \* history: the line numbers edited in this file
    call                    \* the function called, for the function runs

vars ==
    << commit_changes, diagnostics, disk, tmp_exists, tmp_text, pc, exception,
       unused_import_lines, parse_i, files_to_clean, pending_files, file_path,
       file_lines, line_adjustment, unused_imports_by_line, pending_lines,
       orig, prog, reported, opened, written, edit, applied, call >>

fileVars ==
    << file_path, file_lines, line_adjustment, unused_imports_by_line,
       pending_lines, edit, applied >>

inputVars == << commit_changes, diagnostics, orig, prog, reported, call >>

NoEdit ==
    [handler |-> "none", line_num |-> 0, index |-> 0, unused_imports |-> << >>,
     before |-> << >>, after |-> << >>, adjustment_before |-> 0,
     adjustment_after |-> 0, raised |-> FALSE]

NoCall == [fn |-> "none", args |-> << >>, ret |-> << >>, given |-> << >>]

\* the state after RemoveUnusedImports(base, commit_changes), before process()
InitRun(pr, u, env, commit) ==
    /\ commit_changes = commit
    /\ diagnostics = EnvReport(pr, u, env)
    /\ disk = (M_PY :> WriteLines(ProgLines(pr))) @@ (INIT_FILE :> INIT_TEXT)
    /\ orig = disk
    /\ prog = pr
    /\ reported = u
    /\ tmp_exists = FALSE
    /\ tmp_text = << >>
    /\ pc = "process"
    /\ exception = "none"
    /\ unused_import_lines = << >>
    /\ parse_i = 0
    /\ files_to_clean = << >>
    /\ pending_files = {}
    /\ file_path = << >>
    /\ file_lines = << >>
    /\ line_adjustment = 0
    /\ unused_imports_by_line = << >>
    /\ pending_lines = {}
    /\ opened = {}
    /\ written = {}
    /\ edit = NoEdit
    /\ applied = << >>
    /\ call = NoCall

\* the files of up to n statements drawn from the entries ids
Progs(ids, n) == UNION { [1..k -> ids] : k \in 1..n }

\* the entries the files of several statements are made of: one statement
\* of each shape, and the lines no handler takes
EditedStatements == {1, 3, 5, 6, 7, 8, 9}

\* one file of up to MaxStmts statements, a report of its findings only, in
\* either order, and a committing run
Init ==
    \E pr \in Progs(EditedStatements, MaxStmts) : \E u \in Choices(pr) : \E rev \in BOOLEAN :
        InitRun(pr, u,
                [rev |-> rev, init_diag |-> FALSE, noise |-> FALSE,
                 malformed |-> -1],
                TRUE)

\* one statement, a report of any make-up
InitAnyReport ==
    \E pr \in Progs(DOMAIN Statements, 1) : \E u \in Choices(pr) :
    \E init_diag, noise, commit \in BOOLEAN : \E malformed \in -1..2 :
        InitRun(pr, u,
                [rev |-> FALSE, init_diag |-> init_diag, noise |-> noise,
                 malformed |-> malformed],
                commit)

(***************************************************************************)
(* get_unused_imports                                                      *)
(***************************************************************************)
Raise(name) ==
    /\ pc' = "raised"
    /\ exception' = name

\* mkstemp()
Mkstemp ==
    /\ pc = "process"
    /\ tmp_exists' = TRUE
    /\ tmp_text' = << >>
    /\ pc' = "check"
    /\ UNCHANGED << exception, disk, unused_import_lines, parse_i,
                    files_to_clean, pending_files, opened, written >>
    /\ UNCHANGED fileVars
    /\ UNCHANGED inputVars

\* with open(absolute_path, 'w'): pyflakes_api.checkRecursive(...), which
\* writes the report or fails
CheckRecursive ==
    /\ pc = "check"
    /\ \E ok \in BOOLEAN :
        IF ok
        THEN /\ tmp_text' = WriteLines(diagnostics)
             /\ pc' = "read"
             /\ UNCHANGED exception
        ELSE /\ Raise("checkRecursive")
             /\ UNCHANGED tmp_text
    /\ UNCHANGED << tmp_exists, disk, unused_import_lines, parse_i,
                    files_to_clean, pending_files, opened, written >>
    /\ UNCHANGED fileVars
    /\ UNCHANGED inputVars

\* with open(absolute_path, 'r'): the lines that match UNUSED_IMPORT_RE, or
\* an error of the read
ReadReport ==
    /\ pc = "read"
    /\ \E ok \in BOOLEAN :
        IF ok
        THEN /\ unused_import_lines' =
                    SelectSeq(ReadLines(tmp_text), UnusedImportMatch)
             /\ pc' = "remove"
             /\ UNCHANGED exception
        ELSE /\ Raise("IOError")
             /\ UNCHANGED unused_import_lines
    /\ UNCHANGED << tmp_exists, tmp_text, disk, parse_i, files_to_clean,
                    pending_files, opened, written >>
    /\ UNCHANGED fileVars
    /\ UNCHANGED inputVars

\* os.close(file_descriptor); os.remove(absolute_path); return
RemoveTemp ==
    /\ pc = "remove"
    /\ tmp_exists' = FALSE
    /\ pc' = IF unused_import_lines = << >> THEN "done" ELSE "parse"
    /\ UNCHANGED << exception, tmp_text, disk, unused_import_lines, parse_i,
                    files_to_clean, pending_files, opened, written >>
    /\ UNCHANGED fileVars
    /\ UNCHANGED inputVars

(***************************************************************************)
(* remove_unused_imports                                                   *)
(***************************************************************************)
parse_lenient(error_line) ==
    LET fields == Split(error_line, << ":" >>) \o << << >>, << >>, << >> >>
    IN  [raised |-> FALSE, path |-> fields[1], line_num |-> fields[2],
         unused_module |-> UnusedModuleName(Strip(fields[3]))]

\* path, line_num, error = error_line.split(':') raises ValueError unless
\* there are exactly three fields
parse_pyflake_unused_import_error(error_line) ==
    LET fields == Split(error_line, << ":" >>)
    IN  IF Len(fields) # 3
        THEN [raised |-> TRUE, path |-> << >>, line_num |-> << >>,
              unused_module |-> None]
        ELSE [raised |-> FALSE, path |-> fields[1], line_num |-> fields[2],
              unused_module |-> UnusedModuleName(Strip(fields[3]))]

\* one round of the first loop: parse a line, file it under its path; after
\* the last line the second loop starts over the keys of files_to_clean
ParseLine ==
    /\ pc = "parse"
    /\ parse_i < Len(unused_import_lines)
    /\ LET r == parse_pyflake_unused_import_error(
                    unused_import_lines[parse_i + 1])
       IN  IF r.raised
           THEN /\ Raise("ValueError")
                /\ UNCHANGED << parse_i, files_to_clean, pending_files >>
           ELSE /\ parse_i' = parse_i + 1
                /\ files_to_clean' =
                       Append(files_to_clean,
                              [path |-> r.path, line_num |-> r.line_num,
                               unused_module |-> r.unused_module])
                /\ IF parse_i' = Len(unused_import_lines)
                   THEN /\ pc' = "files"
                        /\ pending_files' =
                               { files_to_clean'[i].path :
                                   i \in 1..Len(files_to_clean') }
                   ELSE UNCHANGED << pc, pending_files >>
                /\ UNCHANGED exception
    /\ UNCHANGED << tmp_exists, tmp_text, disk, unused_import_lines, opened,
                    written >>
    /\ UNCHANGED fileVars
    /\ UNCHANGED inputVars

(***************************************************************************)
(* remove_unused_imports_from_file                                         *)
(***************************************************************************)
is_init_file_exact(path) == path = INIT_PY

\* file_path.endswith('__init__.py')
is_init_file(path) == EndsWith(path, INIT_PY)

\* files_to_clean[path]: the (line_num, unused_module) filed under path
Findings(path) == SelectSeq(files_to_clean, LAMBDA e : e.path = path)

\* unused_imports_by_line: int(line_num) -> the names appended, in order
ByLine(findings) ==
    [ n \in { PyInt(findings[i].line_num) : i \in 1..Len(findings) } |->
        LET at == SelectSeq(findings, LAMBDA e : PyInt(e.line_num) = n)
        IN  [ i \in 1..Len(at) |-> at[i].unused_module ] ]

\* one round of the second loop, up to the edits: the call returns at once
\* for an __init__.py; otherwise the file is read and its findings grouped
OpenFile ==
    /\ pc = "files"
    /\ \E path \in pending_files :
        /\ pending_files' = pending_files \ {path}
        /\ file_path' = path
        /\ applied' = << >>
        /\ edit' = NoEdit
        /\ IF is_init_file(path)
           THEN /\ pc' = IF pending_files' = {} THEN "done" ELSE "files"
                /\ UNCHANGED << exception, opened, file_lines, line_adjustment,
                                unused_imports_by_line, pending_lines >>
           ELSE /\ opened' = opened \cup {path}
                /\ file_lines' = ReadLines(disk[path])
                /\ line_adjustment' = 0
                /\ unused_imports_by_line' = ByLine(Findings(path))
                /\ pending_lines' = DOMAIN unused_imports_by_line'
                /\ IF -1 \in pending_lines'
                   THEN Raise("ValueError")
                   ELSE pc' = "edit" /\ UNCHANGED exception
    /\ UNCHANGED << tmp_exists, tmp_text, disk, unused_import_lines, parse_i,
                    files_to_clean, written >>
    /\ UNCHANGED inputVars

\* the round of 'for line_num in sorted(unused_imports_by_line.keys())'
LineNum == CHOOSE n \in pending_lines : \A m \in pending_lines : n <= m
Index == LineNum - 1 - line_adjustment

\* file_lines[index]; None for an IndexError
LineAt(lines, i) ==
    IF 0 <= i /\ i < Len(lines) THEN lines[i + 1]
    ELSE IF i < 0 /\ -i <= Len(lines) THEN lines[Len(lines) + i + 1]
    ELSE None

unused_import_line == LineAt(file_lines, Index)

\* the branch the if / elif chain takes
Dispatch ==
    IF unused_import_line = None THEN "IndexError"
    ELSE IF Len(Split(unused_import_line, << "," >>)) > 1 THEN "multiple"
    ELSE IF EndsWith(unused_import_line, << "(", "\n" >>) THEN "multiline"
    ELSE IF SingleImportMatch(unused_imports_by_line[LineNum][1],
                              Strip(unused_import_line))
    THEN "single"
    ELSE "none"

Edit(handler, r) ==
    /\ pending_lines' = pending_lines \ {LineNum}
    /\ file_lines' = r.file_lines
    /\ line_adjustment' = r.line_adjustment
    /\ applied' = Append(applied, LineNum)
    /\ edit' = [handler |-> handler, line_num |-> LineNum, index |-> Index,
                unused_imports |-> unused_imports_by_line[LineNum],
                before |-> file_lines, after |-> r.file_lines,
                adjustment_before |-> line_adjustment,
                adjustment_after |-> r.line_adjustment,
                raised |-> r.raised]
    /\ IF r.raised
       THEN Raise(handler)
       ELSE /\ pc' = IF pending_lines' = {} THEN "commit" ELSE "edit"
            /\ UNCHANGED exception
    /\ UNCHANGED << tmp_exists, tmp_text, disk, unused_import_lines, parse_i,
                    files_to_clean, pending_files, file_path,
                    unused_imports_by_line, opened, written >>
    /\ UNCHANGED inputVars

HandleSingleLineMultipleImports ==
    /\ pc = "edit"
    /\ Dispatch = "multiple"
    /\ Edit("handle_single_line_multiple_imports",
            handle_single_line_multiple_imports(
                unused_imports_by_line[LineNum], Index, unused_import_line,
                line_adjustment, file_lines))

HandleMultilineImports ==
    /\ pc = "edit"
    /\ Dispatch = "multiline"
    /\ Edit("handle_multiline_imports",
            handle_multiline_imports(
                unused_imports_by_line[LineNum], Index, unused_import_line,
                line_adjustment, file_lines))

HandleSingleLineImports ==
    /\ pc = "edit"
    /\ Dispatch = "single"
    /\ Edit("handle_single_line_imports",
            handle_single_line_imports(Index, line_adjustment, file_lines))

\* no branch taken: the statement is left as it is (or file_lines[index]
\* raised IndexError)
Unmatched ==
    /\ pc = "edit"
    /\ Dispatch \in {"none", "IndexError"}
    /\ Edit("unmatched",
            IF Dispatch = "IndexError"
            THEN Raised(line_adjustment, file_lines)
            ELSE Returned(line_adjustment, file_lines))

\* the end of remove_unused_imports_from_file: writelines(file_lines) when
\* committing; then the next file, or the end of process()
Commit ==
    /\ pc = "commit"
    /\ IF commit_changes
       THEN /\ disk' = [disk EXCEPT ![file_path] = WriteLines(file_lines)]
            /\ written' = written \cup {file_path}
       ELSE UNCHANGED << disk, written >>
    /\ pc' = IF pending_files = {} THEN "done" ELSE "files"
    /\ UNCHANGED << exception, tmp_exists, tmp_text, unused_import_lines,
                    parse_i, files_to_clean, pending_files, opened >>
    /\ UNCHANGED fileVars
    /\ UNCHANGED inputVars

Next ==
    \/ Mkstemp
    \/ CheckRecursive
    \/ ReadReport
    \/ RemoveTemp
    \/ ParseLine
    \/ OpenFile
    \/ HandleSingleLineMultipleImports
    \/ HandleMultilineImports
    \/ HandleSingleLineImports
    \/ Unmatched
    \/ Commit

\* process() on one file of several statements
Spec == Init /\ [][Next]_vars

\* process() on a report of any make-up
SpecRun == InitAnyReport /\ [][Next]_vars

(***************************************************************************)
(* Properties of the editing runs.                                         *)
(***************************************************************************)
\* the statement of m.py that starts at original line n, 0 when none does
StmtAt(n) ==
    IF \E k \in 1..Len(prog) : StartLine(prog, k) = n
    THEN CHOOSE k \in 1..Len(prog) : StartLine(prog, k) = n
    ELSE 0

Edited == edit.handler # "none"
EditedStmt == Statements[prog[StmtAt(edit.line_num)]]
EditedUnused == reported[StmtAt(edit.line_num)]
EditedKept == Range(EditedStmt.symbols) \ EditedUnused
\* the buffer before the edit with the statement's lines taken out
SpanRemoved ==
    CutOut(edit.before, edit.index, edit.index + Len(EditedStmt.lines))

\* C1: the edits of a file are applied in ascending original line number,
\* and when an edit is applied line_num - 1 - line_adjustment is the index
\* of the buffer element holding the first line of the statement that was
\* at original line line_num (the statement's lines follow it there):
\* line_adjustment is the number of buffer elements removed less the
\* number inserted so far, before the edit and after it.
C1_OffsetTracksEdits ==
    /\ \A i, j \in 1..Len(applied) : i < j => applied[i] < applied[j]
    /\ Edited =>
        LET original == ReadLines(orig[file_path])
            st == EditedStmt
        IN  /\ StmtAt(edit.line_num) # 0
            /\ edit.index = edit.line_num - 1 - edit.adjustment_before
            /\ 0 <= edit.index
            /\ edit.index + Len(st.lines) <= Len(edit.before)
            /\ SubSeq(edit.before, edit.index + 1, edit.index + Len(st.lines))
                   = st.lines
            /\ edit.adjustment_before = Len(original) - Len(edit.before)
            /\ edit.adjustment_after = Len(original) - Len(edit.after)

\* an edit after an earlier one that shrank the buffer by two elements or
\* more, in a run whose report was in descending line order
C1_Witness ==
    /\ Edited
    /\ Len(applied) = 2
    /\ edit.adjustment_before >= 2
    /\ edit.adjustment_after > edit.adjustment_before
    /\ PyInt(files_to_clean[1].line_num)
           > PyInt(files_to_clean[Len(files_to_clean)].line_num)

\* the statement the claims expect for the names kept: one line for one
\* name, the parenthesized form for several names of a 'from' import
ExpectedStatement(st, kept) ==
    IF Len(kept) = 1
    THEN st.padding \o st.base_import \o kw_import_sp \o kept[1] \o NL
    ELSE IF st.base_import # << >>
    THEN st.padding \o st.base_import \o kw_import_sp \o << "(", "\n" >>
         \o BuildLines(st.padding, kept) \o st.padding \o << ")", "\n" >>
    ELSE st.padding \o kw_import_sp \o Join(kept, << ",", " " >>) \o NL

\* C2: an edit of a comma, backslash or parenthesized statement of which
\* some names are kept replaces the statement by one that imports exactly
\* the kept names, each once, in alphabetical order: a single line for one
\* name, the parenthesized form for several names of a 'from' import.
C2_ReplacementImportsKeptNames ==
    ( /\ Edited
      /\ edit.handler # "unmatched"
      /\ EditedStmt.shape \in {"comma", "backslash", "parenthesized"}
      /\ EditedKept # {} )
    => edit.after = Insert(SpanRemoved, edit.index,
                           ExpectedStatement(EditedStmt, Sorted(EditedKept)))

\* C3: an edit by one of the three handlers of a statement all of whose
\* names are reported unused removes the lines of the statement's span and
\* nothing else, inserts nothing, and adds the span length to
\* line_adjustment.
C3_FullRemovalDeletesSpan ==
    ( /\ Edited
      /\ edit.handler # "unmatched"
      /\ EditedStmt.symbols # << >>
      /\ EditedKept = {} )
    => /\ edit.after = SpanRemoved
       /\ edit.adjustment_after = edit.adjustment_before + Len(EditedStmt.lines)

\* C2 and C3 hold on the files without statement 7, whose module name
\* holds 'import'
PlainFile == \A k \in 1..Len(prog) : prog[k] # 7
C2_OnPlainFiles == PlainFile => C2_ReplacementImportsKeptNames
C3_OnPlainFiles == PlainFile => C3_FullRemovalDeletesSpan

(***************************************************************************)
(* Properties of the runs on any report.                                   *)
(***************************************************************************)
\* C4: the text of a file on disk changes only if commit_changes is set
\* and the path does not end in __init__.py; a path ending in __init__.py
\* is neither read into a buffer nor written; without commit_changes no
\* file is written.
C4_OnlyCommittedNonInitFilesChange ==
    /\ \A path \in DOMAIN disk :
        /\ disk[path] # orig[path]
             => commit_changes /\ ~EndsWith(path, INIT_PY)
        /\ EndsWith(path, INIT_PY) => path \notin opened \cup written
    /\ ~commit_changes => written = {} /\ disk = orig

\* the end of a committing run that was given a finding in __init__.py,
\* skipped that file and rewrote m.py
C4_Witness ==
    /\ pc = "done"
    /\ commit_changes
    /\ \E i \in 1..Len(files_to_clean) : files_to_clean[i].path = INIT_FILE
    /\ disk[M_PY] # orig[M_PY]
    /\ disk[INIT_FILE] = orig[INIT_FILE]

\* C7: however get_unused_imports is left, by its return or by an error of
\* the diagnostic pass or of the read, the temporary file has been deleted.
C7_TempFileNeverLeaks ==
    pc \notin {"process", "check", "read", "remove"} => ~tmp_exists

\* a line of the report that does not split into three fields at ':'
Malformed(line) ==
    Cardinality({ i \in 1..Len(line) : line[i] = ":" }) # 2

\* C8: once get_unused_imports has returned a report with a malformed
\* line, the run parses the lines before it and ends in the ValueError of
\* parse_pyflake_unused_import_error: it never reaches a file, and no file
\* is read or written, wherever the line stands.
C8_MalformedLineStopsTheRun ==
    ( /\ pc \notin {"process", "check", "read"}
      /\ \E i \in 1..Len(unused_import_lines) :
            Malformed(unused_import_lines[i]) )
    => /\ pc \in {"remove", "parse", "raised"}
       /\ pc = "raised" => exception = "ValueError"
       /\ opened = {} /\ written = {} /\ disk = orig

\* the ValueError of a committing run, raised after a finding was parsed
C8_Witness ==
    /\ pc = "raised"
    /\ exception = "ValueError"
    /\ commit_changes
    /\ parse_i >= 1
    /\ Malformed(unused_import_lines[parse_i + 1])

(***************************************************************************)
(* The function runs: one call of a method of the class on arguments drawn *)
(* from the sets below.  call.given is what the arguments were made of.    *)
(***************************************************************************)
runVars ==
    << commit_changes, diagnostics, disk, tmp_exists, tmp_text, pc, exception,
       unused_import_lines, parse_i, files_to_clean, pending_files, file_path,
       file_lines, line_adjustment, unused_imports_by_line, pending_lines,
       orig, prog, reported, opened, written, edit, applied >>

InitFn ==
    /\ commit_changes = FALSE
    /\ diagnostics = << >>
    /\ disk = << >>
    /\ orig = << >>
    /\ prog = << >>
    /\ reported = << >>
    /\ tmp_exists = FALSE
    /\ tmp_text = << >>
    /\ pc = "idle"
    /\ exception = "none"
    /\ unused_import_lines = << >>
    /\ parse_i = 0
    /\ files_to_clean = << >>
    /\ pending_files = {}
    /\ file_path = << >>
    /\ file_lines = << >>
    /\ line_adjustment = 0
    /\ unused_imports_by_line = << >>
    /\ pending_lines = {}
    /\ opened = {}
    /\ written = {}
    /\ edit = NoEdit
    /\ applied = << >>
    /\ call = NoCall

FOUR_SPACES == << " ", " ", " ", " " >>
Names == { << "a" >>, << "b" >>, << "o", "s" >> }
Modules == { << "p" >>, << "i", "m", "p", "o", "r", "t", "l", "i", "b" >> }
Paddings == { << >>, FOUR_SPACES, << "\t" >> }

\* the lists of n distinct names
NameLists(n) ==
    { l \in [1..n -> Names] : \A i, j \in 1..n : i # j => l[i] # l[j] }

NameListsUpTo(n) == UNION { NameLists(k) : k \in 1..n }

\* 'from <module> ', or '' for a bare import
FromPrefix(module) ==
    IF module = << >> THEN << >> ELSE kw_from_sp \o module \o << " " >>

\* [from <module> ]import n1, ..., nk[,]
SingleLineStatement(padding, module, names, sep, trailing) ==
    padding \o FromPrefix(module) \o kw_import_sp \o Join(names, sep)
    \o (IF trailing THEN << "," >> ELSE << >>)

\* the line of one name inside the parentheses, in one of four layouts
SymbolLine(name, layout) ==
    CASE layout = 1 -> FOUR_SPACES \o name \o << ",", "\n" >>
      [] layout = 2 -> FOUR_SPACES \o name \o NL
      [] layout = 3 -> name \o << ",", "\n" >>
      [] layout = 4 -> << "\t" >> \o name \o << ",", " ", "\n" >>

LinesBefore ==
    { << >>,
      << << "i", "m", "p", "o", "r", "t", " ", "m", "\n" >> >>,
      << << ")", "\n" >>, << "x", ",", "\n" >> >> }

LinesAfter ==
    { << >>,
      << << "\n" >>, << "i", "m", "p", "o", "r", "t", " ", "e", "\n" >> >>,
      << << "y", ",", "\n" >>, << ")", "\n" >> >> }

\* the one call of a run
Called(fn, args, ret, given) ==
    /\ call' = [fn |-> fn, args |-> args, ret |-> ret, given |-> given]
    /\ UNCHANGED runVars

CallSplit ==
    /\ call = NoCall
    /\ \E padding \in Paddings, module \in Modules \cup { << >> },
          names \in NameListsUpTo(MaxSyms), sep \in { << "," >>, << ",", " " >> },
          trailing, newline \in BOOLEAN :
           LET line == SingleLineStatement(padding, module, names, sep, trailing)
                       \o (IF newline THEN NL ELSE << >>)
           IN  Called("split_single_line_multi_imports", << line >>,
                      split_single_line_multi_imports(line),
                      [names |-> names, module |-> module])

CallBuild ==
    /\ call = NoCall
    /\ \E padding \in Paddings, module \in Modules \cup { << >> },
          imports \in NameListsUpTo(MaxSyms) :
           Called("build_multiline_import",
                  << padding, FromPrefix(module), imports >>,
                  build_multiline_import(padding, FromPrefix(module), imports),
                  [names |-> imports, module |-> module])

CallGroupMultiline ==
    /\ call = NoCall
    /\ \E before \in LinesBefore, after \in LinesAfter,
          names \in NameListsUpTo(MaxSyms), closing \in { << >>, FOUR_SPACES } :
       \E layout \in [1..Len(names) -> 1..4] :
           LET lines ==
                   before
                   \o << kw_from_sp \o << "p", " " >> \o kw_import_sp
                         \o << "(", "\n" >> >>
                   \o [ i \in 1..Len(names) |-> SymbolLine(names[i], layout[i]) ]
                   \o << closing \o << ")", "\n" >> >>
                   \o after
           IN  Called("group_multiline_imports", << Len(before), lines >>,
                      group_multiline_imports(Len(before), lines),
                      [names |-> names, layout |-> layout])

\* a parenthesized statement of two names or more: as build_multiline_import
\* writes it (canonical), or with the names in the order given, two spaces
\* of nesting and no comma after the last name
ParenthesizedLines(padding, module, names, canonical) ==
    IF canonical
    THEN << padding \o FromPrefix(module) \o kw_import_sp \o << "(", "\n" >> >>
         \o [ i \in 1..Len(names) |->
                padding \o FOUR_SPACES \o Sorted(Range(names))[i]
                \o << ",", "\n" >> ]
         \o << padding \o << ")", "\n" >> >>
    ELSE << padding \o FromPrefix(module) \o kw_import_sp \o << "(", "\n" >> >>
         \o [ i \in 1..Len(names) |->
                padding \o << " ", " " >> \o names[i]
                \o (IF i < Len(names) THEN << ",", "\n" >> ELSE NL) ]
         \o << padding \o << ")", "\n" >> >>

\* the names of a list in some order and number: an unused_imports argument
Unused(names) == { << >> } \cup { Sorted(U) : U \in SUBSET Range(names) \ {{}} }

CallHandleMultiline ==
    /\ call = NoCall
    /\ \E before \in LinesBefore, after \in LinesAfter,
          padding \in { << >>, FOUR_SPACES }, module \in Modules,
          names \in NameLists(2) \cup NameLists(MaxSyms),
          canonical \in BOOLEAN, line_adj \in 0..1 :
       \E unused_imports \in Unused(names) :
           LET stmt == ParenthesizedLines(padding, module, names, canonical)
               lines == before \o stmt \o after
           IN  Called("handle_multiline_imports",
                      << unused_imports, Len(before), stmt[1], line_adj, lines >>,
                      handle_multiline_imports(unused_imports, Len(before),
                                               stmt[1], line_adj, lines),
                      [names |-> names, canonical |-> canonical,
                       span |-> Len(stmt)])

CallHandleSingleLineMultiple ==
    /\ call = NoCall
    /\ \E before \in LinesBefore, after \in LinesAfter,
          padding \in { << >>, FOUR_SPACES }, module \in Modules \cup { << >> },
          names \in NameLists(2) \cup NameLists(MaxSyms), line_adj \in 0..1 :
       \E unused_imports \in Unused(names) :
           LET stmt == SingleLineStatement(padding, module, names,
                                           << ",", " " >>, FALSE) \o NL
               lines == before \o << stmt >> \o after
           IN  Called("handle_single_line_multiple_imports",
                      << unused_imports, Len(before), stmt, line_adj, lines >>,
                      handle_single_line_multiple_imports(
                          unused_imports, Len(before), stmt, line_adj, lines),
                      [names |-> names, canonical |-> FALSE, span |-> 1])

NextFn ==
    \/ CallSplit
    \/ CallBuild
    \/ CallGroupMultiline
    \/ CallHandleMultiline
    \/ CallHandleSingleLineMultiple

\* single calls of the methods
SpecFn == InitFn /\ [][NextFn]_vars

(***************************************************************************)
(* Properties of the function runs.                                        *)
(***************************************************************************)
\* C9: split_single_line_multi_imports on '[from <module> ]import n1, ...,
\* nk', with or without a comma at the end, returns the names n1, ..., nk
\* after the 'import' keyword, in order, trimmed, without empty fragments.
C9_SplitReturnsTheNames ==
    call.fn = "split_single_line_multi_imports" => call.ret = call.given.names

\* text with padding put before each of its lines
Indented(padding, text) ==
    LET lines == ReadLines(text)
    IN  WriteLines([ i \in 1..Len(lines) |-> padding \o lines[i] ])

\* C6: build_multiline_import(P, prefix, symbols), for a 'from' prefix and
\* for the empty one, is build_multiline_import('', prefix, symbols) with P
\* put before each line.
C6_BuildKeepsIndentation ==
    call.fn = "build_multiline_import"
    => call.ret = Indented(call.args[1],
                           build_multiline_import(<< >>, call.args[2],
                                                  call.args[3]))

\* C10: group_multiline_imports(i, lines), for a parenthesized statement at
\* index i of k lines of one name each, with or without a comma, closed by
\* a line that is ')' alone, returns the k names in file order, bare, and
\* the end index i + k + 1, whatever the lines before i and after the end.
C10_GroupReturnsNamesAndEnd ==
    call.fn = "group_multiline_imports"
    => /\ call.ret.group = call.given.names
       /\ call.ret.end_index = call.args[1] + Len(call.given.names) + 1

\* a statement that is not at index 0, of two names, the last of them
\* without comma, with a ')' line before it and another after its end
C10_Witness ==
    /\ call.fn = "group_multiline_imports"
    /\ Len(call.given.names) = 2
    /\ call.given.layout[2] = 2
    /\ call.args[1] = 2
    /\ call.ret.end_index = 5
    /\ Len(call.args[2]) = 8

IsHandlerCall ==
    call.fn \in {"handle_multiline_imports",
                 "handle_single_line_multiple_imports"}

====
